---- MODULE Spec2Model ----
(***************************************************************************)
(* Connect-4 engine (connect4_env.py: EnvConnect4) and the tabular         *)
(* Q-learning policy (policies.py: PolicyQLearning).                       *)
(*                                                                         *)
(* The board is the flat list of the source: index row * num_cols + col,   *)
(* row 0 is the top row, cells hold 0 (empty), 1 or 2.                     *)
(***************************************************************************)
EXTENDS Integers, Sequences, FiniteSets, TLC

\* ---------------------------------------------------------------- constants
NumRows == 6
NumCols == 7

NumCells == NumRows * NumCols

\* ------------------------------------------------------- exploration bounds
\* The caller explores every column in the first OpeningPlies moves and in
\* the last EndgamePlies moves of a game; in between it follows Book.
OpeningPlies == 4
EndgamePlies == 8

\* The boards handed to is_winner hold one run of at most MaxRun cells.
MaxRun == 4

\* A learning policy receives at most MaxUpdates calls of update.
MaxUpdates == 2

\* The epsilon schedule is followed for at most MaxDecays episodes.
MaxDecays == 3

\* A trainer is called with at most MaxEpisodes episodes, and an episode is
\* followed for at most MaxPlies moves.
MaxEpisodes == 2
MaxPlies == 7

\* board, turn, count_moves: the fields of EnvConnect4.
\* ret: the last call of the caller, its operation (op), for step its
\* argument (action), and the tuple the call returned.
\* agent: the PolicyQLearning object (alpha, gamma, Q), with the number of
\* update calls it has received.
\* train: the local variables of a running trainer function.
\* twin: a second run of the trainer (its engine, policy and local
\* variables), started with the same arguments.
VARIABLES board, turn, count_moves, ret, agent, train, twin

vars == <<board, turn, count_moves, ret, agent, train, twin>>

\* no trainer is running
NoTrain == << >>
NoTwin == << >>

\* no policy object has been constructed
NoAgent == << >>

\* self.board = None, self.turn = None, self.count_moves = None
NoBoard == << >>
NoTurn == 0
NoCount == 0

\* ------------------------------------------------------------ pure helpers
idx(row, col) == row * NumCols + col

MaxOf(S) == CHOOSE x \in S : \A y \in S : y <= x

MinOf(S) == CHOOSE x \in S : \A y \in S : x <= y

\* variant: the scan runs from the top row down
get_drop_row_from_top(b, col) ==
  LET empties == {row \in 0..(NumRows - 1) : b[idx(row, col)] = 0}
  IN  IF empties = {} THEN -1 ELSE MinOf(empties)

\* variant: the row above the lowest EMPTY cell, where there is one
get_drop_row_one_above(b, col) ==
  LET empty == {r \in 0..(NumRows - 1) : b[idx(r, col)] = 0}
  IN  IF empty = {} THEN -1
      ELSE IF MaxOf(empty) > 0 THEN MaxOf(empty) - 1 ELSE 0

\* for row in range(num_rows - 1, -1, -1): first empty cell from the bottom
get_drop_row(b, col) ==
  LET empties == {row \in 0..(NumRows - 1) : b[idx(row, col)] = 0}
  IN  IF empties = {} THEN -1 ELSE MaxOf(empties)

\* variant: the test reads row 1 instead of the top row
get_legal_actions_row1(b) ==
  SelectSeq([i \in 1..NumCols |-> i - 1], LAMBDA col : b[idx(1, col)] = 0)

\* [col for col in range(num_cols) if board[idx(0, col)] == 0]
get_legal_actions(b) ==
  SelectSeq([i \in 1..NumCols |-> i - 1], LAMBDA col : b[idx(0, col)] = 0)

\* "x in list"
InList(x, list) == \E i \in 1..Len(list) : list[i] = x

\* variant: the vertical scan stops one row early (range(num_rows - 4))
is_winner_short_vertical(b, mark) ==
  \/ \E row \in 0..(NumRows - 1), col \in 0..(NumCols - 4) :
        \A i \in 0..3 : b[idx(row, col + i)] = mark
  \/ \E row \in 0..(NumRows - 5), col \in 0..(NumCols - 1) :
        \A i \in 0..3 : b[idx(row + i, col)] = mark
  \/ \E row \in 0..(NumRows - 4), col \in 0..(NumCols - 4) :
        \A i \in 0..3 : b[idx(row + i, col + i)] = mark
  \/ \E row \in 3..(NumRows - 1), col \in 0..(NumCols - 4) :
        \A i \in 0..3 : b[idx(row - i, col + i)] = mark

is_winner(b, mark) ==
  \/ \E row \in 0..(NumRows - 1), col \in 0..(NumCols - 4) :
        \A i \in 0..3 : b[idx(row, col + i)] = mark
  \/ \E row \in 0..(NumRows - 4), col \in 0..(NumCols - 1) :
        \A i \in 0..3 : b[idx(row + i, col)] = mark
  \/ \E row \in 0..(NumRows - 4), col \in 0..(NumCols - 4) :
        \A i \in 0..3 : b[idx(row + i, col + i)] = mark
  \/ \E row \in 3..(NumRows - 1), col \in 0..(NumCols - 4) :
        \A i \in 0..3 : b[idx(row - i, col + i)] = mark

get_obs(b, t) == [board |-> b, turn |-> t]

\* variant: the move count is the one before the move
get_info_stale_count(b, t, n, winner, is_draw) ==
  [board |-> b, turn |-> t, legal_columns |-> get_legal_actions(b),
   count_moves |-> n - 1, winner |-> winner, is_draw |-> is_draw]

get_info(b, t, n, winner, is_draw) ==
  [board |-> b, turn |-> t, legal_columns |-> get_legal_actions(b),
   count_moves |-> n, winner |-> winner, is_draw |-> is_draw]

\* 2 if self.turn == 1 else 1
OtherPlayer(t) == IF t = 1 THEN 2 ELSE 1

\* ------------------------------------------------------------------ engine
\* The engine after a call: its three fields and the returned tuple
\* (observation, reward, terminated, truncated, info).
Outcome(b, t, n, reward, terminated, winner, is_draw) ==
  [board |-> b, turn |-> t, count_moves |-> n,
   ret |-> [op |-> "step", obs |-> get_obs(b, t), reward |-> reward,
            terminated |-> terminated, truncated |-> FALSE,
            info |-> get_info(b, t, n, winner, is_draw)]]

ResetOutcome ==
  LET b == [i \in 0..(NumCells - 1) |-> 0]
  IN  [board |-> b, turn |-> 1, count_moves |-> 0,
       ret |-> [op |-> "reset", obs |-> get_obs(b, 1),
                info |-> get_info(b, 1, 0, 0, FALSE)]]

\* variant: the acting player is named as the winner
IllegalOutcome_mover_wins(b, t, n) == Outcome(b, t, n, -1, TRUE, t, FALSE)

\* variant: the turn advances on an illegal action
IllegalOutcome_turn_advances(b, t, n) ==
  Outcome(b, OtherPlayer(t), n, -1, TRUE, OtherPlayer(t), FALSE)

\* variant: the illegal action is counted as a move
IllegalOutcome_counted(b, t, n) ==
  Outcome(b, t, n + 1, -1, TRUE, OtherPlayer(t), FALSE)

\* if action not in legal: the acting player loses, nothing is written
IllegalOutcome(b, t, n) == Outcome(b, t, n, -1, TRUE, OtherPlayer(t), FALSE)

\* if row == -1: the move was counted, nothing is written
FallbackOutcome(b, t, n) == Outcome(b, t, n, -1, TRUE, OtherPlayer(t), FALSE)

\* variant: the turn advances on the winning move
WinOutcome_turn_advances(b, t, n) ==
  Outcome(b, OtherPlayer(t), n, 1, TRUE, t, FALSE)

WinOutcome(b, t, n) == Outcome(b, t, n, 1, TRUE, t, FALSE)

DrawOutcome(b, t, n) == Outcome(b, t, n, 0, TRUE, 0, TRUE)

\* variant: the move is not counted
ContinueOutcome_uncounted(b, t, n) ==
  Outcome(b, OtherPlayer(t), n - 1, 0, FALSE, 0, FALSE)

ContinueOutcome(b, t, n) == Outcome(b, OtherPlayer(t), n, 0, FALSE, 0, FALSE)

PlaceMark(b, row, col, t) == [b EXCEPT ![idx(row, col)] = t]

\* variant: the draw check runs before the win check
StepOutcome_draw_first(b, t, n, action) ==
  IF ~InList(action, get_legal_actions(b))
  THEN IllegalOutcome(b, t, n)
  ELSE LET n1  == n + 1
           row == get_drop_row(b, action)
       IN  IF row = -1
           THEN FallbackOutcome(b, t, n1)
           ELSE LET b1 == PlaceMark(b, row, action, t)
                IN  IF Len(get_legal_actions(b1)) = 0
                    THEN DrawOutcome(b1, t, n1)
                    ELSE IF is_winner(b1, t)
                         THEN WinOutcome(b1, t, n1)
                         ELSE ContinueOutcome(b1, t, n1)

StepOutcome(b, t, n, action) ==
  IF ~InList(action, get_legal_actions(b))
  THEN IllegalOutcome(b, t, n)
  ELSE LET n1  == n + 1
           row == get_drop_row(b, action)
       IN  IF row = -1
           THEN FallbackOutcome(b, t, n1)
           ELSE LET b1 == PlaceMark(b, row, action, t)
                IN  IF is_winner(b1, t)
                    THEN WinOutcome(b1, t, n1)
                    ELSE IF Len(get_legal_actions(b1)) = 0
                         THEN DrawOutcome(b1, t, n1)
                         ELSE ContinueOutcome(b1, t, n1)

\* ------------------------------------------------------------------ caller
\* A complete game of 42 moves that ends in a draw; the top row stays empty
\* during its first 34 moves.
Book == <<0, 2, 2, 2, 6, 5, 2, 3, 4, 5, 1, 2, 3, 3, 5, 1, 6, 5, 4, 0, 1,
          5, 3, 6, 1, 3, 0, 4, 1, 4, 6, 0, 6, 0, 0, 1, 6, 5, 4, 4, 2, 3>>

\* the cell the i-th move of Book lands in, and the mark it writes
BookCell(i) ==
  idx(NumRows - Cardinality({j \in 1..i : Book[j] = Book[i]}), Book[i])

BookMark(i) == IF i % 2 = 1 THEN 1 ELSE 2

\* b is the position after the first k moves of Book
OnBook(b, k) ==
  /\ \A i \in 1..k : b[BookCell(i)] = BookMark(i)
  /\ Cardinality({c \in 0..(NumCells - 1) : b[c] # 0}) = k

\* every argument of step the caller tries: the columns and one value
\* outside the range on each side
Actions == (-1)..NumCols

CallerPlays(action) ==
  \/ ~InList(action, get_legal_actions(board))
  \/ count_moves < OpeningPlies
  \/ count_moves >= NumCells - EndgamePlies
  \/ /\ count_moves < NumCells - EndgamePlies
     /\ action = Book[count_moves + 1]
     /\ OnBook(board, count_moves)

\* ----------------------------------------------------------------- actions
Init ==
  /\ board = NoBoard
  /\ turn = NoTurn
  /\ count_moves = NoCount
  /\ ret = [op |-> "none"]
  /\ agent = NoAgent
  /\ train = NoTrain /\ twin = NoTwin

Reset ==
  /\ board' = ResetOutcome.board
  /\ turn' = ResetOutcome.turn
  /\ count_moves' = ResetOutcome.count_moves
  /\ ret' = ResetOutcome.ret
  /\ UNCHANGED <<agent, train, twin>>

Step(action) ==
  /\ board # NoBoard
  /\ CallerPlays(action)
  /\ LET o == StepOutcome(board, turn, count_moves, action)
     IN  /\ board' = o.board
         /\ turn' = o.turn
         /\ count_moves' = o.count_moves
         /\ ret' = o.ret @@ [action |-> action]
  /\ UNCHANGED <<agent, train, twin>>

StepAny == \E action \in Actions : Step(action)

Next == Reset \/ StepAny

Spec == Init /\ [][Next]_vars

\* ------------------------------------------------- is_winner on any board
\* is_winner reads the board only, so it is applied to boards written
\* directly: one run of cells start, start + stride, ... of one mark in the
\* flat list (stride 1, num_cols, num_cols + 1, num_cols - 1: a run may
\* wrap around the edge of the board), optionally with one cell of the run
\* given to the other mark.
Strides == {1, NumCols, NumCols + 1, NumCols - 1}

RunBoard(start, stride, len, mark, spoil) ==
  [c \in 0..(NumCells - 1) |->
     IF \E i \in 0..(len - 1) : c = start + i * stride
     THEN IF spoil > 0 /\ c = start + (spoil - 1) * stride
          THEN OtherPlayer(mark)
          ELSE mark
     ELSE 0]

InitWin ==
  /\ \E start \in 0..(NumCells - 1), stride \in Strides, len \in 1..MaxRun,
        mark \in {1, 2} :
        \E spoil \in 0..len :
          /\ board = RunBoard(start, stride, len, mark, spoil)
          /\ count_moves = Cardinality({c \in DOMAIN board : board[c] # 0})
  /\ turn \in {1, 2}
  /\ ret = [op |-> "none"]
  /\ agent = NoAgent
  /\ train = NoTrain /\ twin = NoTwin

IsWinnerCall(mark) ==
  /\ ret' = [op |-> "is_winner", mark |-> mark,
             result |-> is_winner(board, mark)]
  /\ UNCHANGED <<board, turn, count_moves, agent, train, twin>>

NextWin == \E mark \in {1, 2} : IsWinnerCall(mark)

SpecWin == InitWin /\ [][NextWin]_vars

\* ------------------------------------------------------- PolicyQLearning
\* Numbers are exact fractions <<numerator, denominator>> in lowest terms,
\* denominator > 0. The inputs below are multiples of powers of 1/2, for
\* which the float arithmetic of the source is exact. <<-1, 0>> is -inf:
\* it is below every fraction in the order Less.
RECURSIVE GCD(_, _)
GCD(x, y) == IF y = 0 THEN x ELSE GCD(y, x % y)

Abs(x) == IF x < 0 THEN -x ELSE x

Frac(n, d) == LET g == GCD(Abs(n), d) IN <<n \div g, d \div g>>

Plus(x, y) == Frac(x[1] * y[2] + y[1] * x[2], x[2] * y[2])
Minus(x, y) == Frac(x[1] * y[2] - y[1] * x[2], x[2] * y[2])
Times(x, y) == Frac(x[1] * y[1], x[2] * y[2])
Less(x, y) == x[1] * y[2] < y[1] * x[2]

Zero == <<0, 1>>
NegInf == <<-1, 0>>

\* env.action_space.n
n_actions == NumCols

\* np.zeros(n_actions)
ZeroRow == [aa \in 0..(n_actions - 1) |-> Zero]

\* tuple(observation["board"]) + (int(observation["turn"]),)
state_key(obs) == [i \in 1..NumCells |-> obs.board[i - 1]] \o <<obs.turn>>

\* if s not in self.Q: self.Q[s] = np.zeros(...)
ensure(table, s) ==
  IF s \in DOMAIN table THEN table ELSE table @@ (s :> ZeroRow)

\* np.max
ArrayMax(q) ==
  LET values == {q[aa] : aa \in DOMAIN q}
  IN  CHOOSE v \in values : \A w \in values : ~Less(v, w)

\* variant: the next row is used without masking the illegal actions
update_unmasked(ag, s, a, r, s_next, legal_next, done) ==
  LET Q1     == ensure(ensure(ag.Q, s), s_next)
      q_next == Q1[s_next]
      target == IF done THEN r ELSE Plus(r, Times(ag.gamma, ArrayMax(q_next)))
  IN  [Q1 EXCEPT ![s][a] = Plus(@, Times(ag.alpha, Minus(target, @)))]

\* the table after update(s, a, r, s_next, legal_next, done)
update(ag, s, a, r, s_next, legal_next, done) ==
  LET Q1     == ensure(ensure(ag.Q, s), s_next)
      q_next == [aa \in 0..(n_actions - 1) |->
                   IF InList(aa, legal_next) THEN Q1[s_next][aa] ELSE NegInf]
      target == IF done THEN r ELSE Plus(r, Times(ag.gamma, ArrayMax(q_next)))
  IN  [Q1 EXCEPT ![s][a] = Plus(@, Times(ag.alpha, Minus(target, @)))]

\* ---- the inputs of update
\* the keys of the first position of a game and of the position two moves
\* later (the learning agent to move in both)
KeyStart == state_key(ResetOutcome.ret.obs)

KeyLater ==
  LET o1 == StepOutcome(ResetOutcome.board, 1, 0, Book[1])
      o2 == StepOutcome(o1.board, o1.turn, o1.count_moves, Book[2])
  IN  state_key(o2.ret.obs)

UpdateKeys == {KeyStart, KeyLater}
UpdateActions == {0, 3}
UpdateRewards == {<<-1, 1>>, <<1, 2>>, <<2, 1>>}
AllColumns == [i \in 1..NumCols |-> i - 1]

\* (legal_next, done): update is called with done = False only for a state
\* that step returned as non-terminal, whose legal list is not empty
UpdateNext ==
  {<< << >>, TRUE >>, << <<3>>, TRUE >>, << <<0>>, FALSE >>,
   << AllColumns, FALSE >>}

\* PolicyQLearning(env, alpha, gamma): an empty table
InitQ ==
  /\ board = NoBoard
  /\ turn = NoTurn
  /\ count_moves = NoCount
  /\ ret = [op |-> "none"]
  /\ \E al \in {<<1, 2>>, <<1, 4>>}, ga \in {<<1, 2>>, <<1, 1>>} :
       agent = [alpha |-> al, gamma |-> ga, Q |-> << >>, updates |-> 0]
  /\ train = NoTrain /\ twin = NoTwin

Update(s, a, r, s_next, legal_next, done) ==
  /\ agent.updates < MaxUpdates
  /\ agent' = [agent EXCEPT
                 !.Q = update(agent, s, a, r, s_next, legal_next, done),
                 !.updates = @ + 1]
  /\ ret' = [op |-> "update", s |-> s, a |-> a, r |-> r, s_next |-> s_next,
             legal_next |-> legal_next, done |-> done]
  /\ UNCHANGED <<board, turn, count_moves, train, twin>>

NextQ ==
  \E s \in UpdateKeys, a \in UpdateActions, r \in UpdateRewards,
     s_next \in UpdateKeys, nx \in UpdateNext :
       Update(s, a, r, s_next, nx[1], nx[2])

SpecQ == InitQ /\ [][NextQ]_vars

\* ---- _get_action
\* np.argmax: the first index that holds the largest value
ArgMax(q) ==
  MinOf({aa \in DOMAIN q : \A w \in DOMAIN q : ~Less(q[aa], q[w])})

\* variant: the row is not masked before the argmax
get_action_unmasked(ag, b, observation, u, pick) ==
  LET s     == state_key(observation)
      Q1    == ensure(ag.Q, s)
      legal == get_legal_actions(b)
  IN  IF Less(u, ag.epsilon)
      THEN [Q |-> Q1, explore |-> TRUE, action |-> legal[pick]]
      ELSE [Q |-> Q1, explore |-> FALSE, action |-> ArgMax(Q1[s])]

\* _get_action(env, observation): the table after the call and the action.
\* u is the value of rng.random(), pick the index rng.choice draws in legal.
get_action(ag, b, observation, u, pick) ==
  LET s     == state_key(observation)
      Q1    == ensure(ag.Q, s)
      legal == get_legal_actions(b)
  IN  IF Less(u, ag.epsilon)
      THEN [Q |-> Q1, explore |-> TRUE, action |-> legal[pick]]
      ELSE LET q == [aa \in 0..(n_actions - 1) |->
                      IF InList(aa, legal) THEN Q1[s][aa] ELSE NegInf]
           IN  [Q |-> Q1, explore |-> FALSE, action |-> ArgMax(q)]

\* ---- the inputs of _get_action
\* the board after the first k moves of Book, and the player to move on it
BookBoard(k) ==
  [c \in 0..(NumCells - 1) |->
     IF \E i \in 1..k : BookCell(i) = c
     THEN BookMark(CHOOSE i \in 1..k : BookCell(i) = c)
     ELSE 0]

BookTurn(k) == IF k % 2 = 0 THEN 1 ELSE 2

\* positions of Book with 7, 5, 3 and 1 legal columns
ActionPositions == {0, 36, 38, 41}

\* the stored values of a row: columns 0, 2, 3 and 6 hold any of these,
\* the other columns hold 0
RowValues == {<<-1, 1>>, <<0, 1>>, <<2, 1>>}

ActionRows ==
  {[aa \in 0..(n_actions - 1) |->
      CASE aa = 0 -> v[1] [] aa = 2 -> v[2] [] aa = 3 -> v[3]
        [] aa = 6 -> v[4] [] OTHER -> Zero] :
     v \in RowValues \X RowValues \X RowValues \X RowValues}

\* rng.random() is in [0, 1)
RandomDraws == {<<0, 1>>, <<3, 4>>}

Epsilons == {<<0, 1>>, <<1, 2>>, <<1, 1>>}

\* a policy whose table holds any row, or no row, for the key of the
\* position the engine is in
InitAct ==
  \E k \in ActionPositions, eps \in Epsilons :
    /\ train = NoTrain /\ twin = NoTwin
    /\ board = BookBoard(k)
    /\ turn = BookTurn(k)
    /\ count_moves = k
    /\ ret = [op |-> "none"]
    /\ \/ agent = [alpha |-> <<1, 2>>, gamma |-> <<1, 2>>, epsilon |-> eps,
                   Q |-> << >>]
       \/ \E row \in ActionRows :
            agent = [alpha |-> <<1, 2>>, gamma |-> <<1, 2>>, epsilon |-> eps,
                     Q |-> (state_key(get_obs(board, turn)) :> row)]

GetAction(u, pick) ==
  /\ ret.op = "none"
  /\ pick \in 1..Len(get_legal_actions(board))
  /\ LET g == get_action(agent, board, get_obs(board, turn), u, pick)
     IN  /\ agent' = [agent EXCEPT !.Q = g.Q]
         /\ ret' = [op |-> "get_action", explore |-> g.explore,
                    action |-> g.action]
  /\ UNCHANGED <<board, turn, count_moves, train, twin>>

NextAct == \E u \in RandomDraws, pick \in 1..NumCols : GetAction(u, pick)

SpecAct == InitAct /\ [][NextAct]_vars

\* ------------------------------------------------------- epsilon schedule
\* max(x, y) of two numbers
MaxFrac(x, y) == IF Less(x, y) THEN y ELSE x

\* variant: min in place of max
decay_epsilon_min(eps, epsilon_end, epsilon_decay) ==
  IF Less(Times(eps, epsilon_decay), epsilon_end)
  THEN Times(eps, epsilon_decay)
  ELSE epsilon_end

\* eps = max(epsilon_end, eps * epsilon_decay)
decay_epsilon(eps, epsilon_end, epsilon_decay) ==
  MaxFrac(epsilon_end, Times(eps, epsilon_decay))

\* the values of epsilon_start, epsilon_end and epsilon_decay passed to train
EpsilonStarts == {<<-1, 1>>, <<1, 2>>, <<1, 1>>}
EpsilonEnds == {<<-1, 1>>, <<1, 4>>, <<1, 1>>}
EpsilonDecays == {<<-1, 2>>, <<1, 2>>, <<1, 1>>, <<2, 1>>}

\* agent = PolicyQLearning(..., epsilon=epsilon_start); eps = epsilon_start
InitEps ==
  /\ board = NoBoard
  /\ turn = NoTurn
  /\ count_moves = NoCount
  /\ ret = [op |-> "none"]
  /\ \E st \in EpsilonStarts, en \in EpsilonEnds, de \in EpsilonDecays :
       /\ agent = [alpha |-> <<1, 2>>, gamma |-> <<1, 2>>, epsilon |-> st,
                   Q |-> << >>]
       /\ train = [ep |-> 0, eps |-> st, epsilon_start |-> st,
                   epsilon_end |-> en, epsilon_decay |-> de]
  /\ twin = NoTwin

\* the end of an episode: eps = max(...); agent.epsilon = eps
DecayEpsilon ==
  /\ train.ep < MaxDecays
  /\ LET eps == decay_epsilon(train.eps, train.epsilon_end,
                              train.epsilon_decay)
     IN  /\ train' = [train EXCEPT !.eps = eps, !.ep = @ + 1]
         /\ agent' = [agent EXCEPT !.epsilon = eps]
  /\ UNCHANGED <<board, turn, count_moves, ret, twin>>

NextEps == DecayEpsilon

SpecEps == InitEps /\ [][NextEps]_vars

\* ----------------------------------------------------------------- trainers
\* A random generator: whether it was built from a seed, the seed, and the
\* number of values drawn from it since.
Generator(seed) == [seeded |-> TRUE, seed |-> seed, pos |-> 0]

\* a generator seeded by the system, after pos draws
SystemGenerator(pos) == [seeded |-> FALSE, seed |-> 0, pos |-> pos]

Drawn(g, k) == [g EXCEPT !.pos = @ + k]

\* variant: reset keeps the generator the engine has
reseed_kept(np_random, seed) == np_random

\* super().reset(seed=seed): the engine's generator is rebuilt from seed
reseed(np_random, seed) == Generator(seed)

\* rng.choice(legal) returns the first or the last entry of legal
ChoiceDraws == {"first", "last"}

PickIndex(legal, c) == IF c = "first" THEN 1 ELSE Len(legal)

\* the values a step of a trainer draws: u from rng.random(), c from
\* rng.choice
Draws == [u : RandomDraws, c : ChoiceDraws]

\* a local variable that is not bound yet
Unbound == << >>

\* float(reward) of a step reward
Float(reward) == <<reward, 1>>

\* The state of a run of a trainer at line 33, called with the arguments p
\* and the engine env: agent = PolicyQLearning(...), returns = [],
\* eps = epsilon_start.
StartTrain(p, env) ==
  [board |-> env.board, turn |-> env.turn, count_moves |-> env.count_moves,
   agent |-> [alpha |-> p.alpha, gamma |-> p.gamma,
              epsilon |-> p.epsilon_start, Q |-> << >>,
              rng |-> Generator(p.seed)],
   train |-> [algo |-> p.algo, pc |-> "for", episodes |-> p.episodes,
              alpha |-> p.alpha, gamma |-> p.gamma,
              epsilon_start |-> p.epsilon_start,
              epsilon_end |-> p.epsilon_end,
              epsilon_decay |-> p.epsilon_decay, seed |-> p.seed,
              np_random |-> env.np_random,
              returns |-> << >>, eps |-> p.epsilon_start, ep |-> 0,
              observation |-> Unbound, done |-> FALSE, G |-> Zero,
              s |-> Unbound, a |-> -1, r |-> Zero, obs_next |-> Unbound,
              info_next |-> Unbound, replied |-> FALSE, r_total |-> Zero,
              s_next |-> Unbound, a_next |-> -1]]

\* for ep in range(episodes): observation, info = env.reset(seed=seed + ep);
\* done = False; G = 0.0
BeginEpisodeStep(w) ==
  LET o == ResetOutcome
  IN  [w EXCEPT !.board = o.board, !.turn = o.turn,
                !.count_moves = o.count_moves,
                !.train = [@ EXCEPT
                   !.np_random = reseed(@, w.train.seed + w.train.ep),
                   !.observation = o.ret.obs, !.done = FALSE, !.G = Zero,
                   !.pc = "while"]]

\* the loop over the episodes is over: return agent, returns
ReturnStep(w) == [w EXCEPT !.train = [@ EXCEPT !.pc = "returned"]]

\* if env.turn != 1: the opponent moves, done = terminated or truncated,
\* continue
OpponentTurnStep(w, d) ==
  LET legal == get_legal_actions(w.board)
      a_opp == legal[PickIndex(legal, d.c)]
      o     == StepOutcome(w.board, w.turn, w.count_moves, a_opp)
  IN  [w EXCEPT !.board = o.board, !.turn = o.turn,
                !.count_moves = o.count_moves,
                !.train = [@ EXCEPT
                   !.np_random = Drawn(@, 1),
                   !.observation = o.ret.obs,
                   !.done = o.ret.terminated \/ o.ret.truncated]]

\* s = key of observation; a = agent._get_action(env, observation); the
\* engine steps a; done = terminated or truncated. The off-policy trainer
\* goes on to the shaping of a final move (lines 53-62) or to the reply of
\* the opponent, the on-policy trainer to its update.
AgentMoveStep(w, d) ==
  LET legal == get_legal_actions(w.board)
      g     == get_action(w.agent, w.board, w.train.observation, d.u,
                          PickIndex(legal, d.c))
      o     == StepOutcome(w.board, w.turn, w.count_moves, g.action)
      done  == o.ret.terminated \/ o.ret.truncated
      r_terminal == IF is_winner(o.board, 1) THEN <<1, 1>>
                    ELSE IF is_winner(o.board, 2) THEN <<-1, 1>>
                    ELSE <<1, 2>>
  IN  [w EXCEPT
        !.board = o.board, !.turn = o.turn, !.count_moves = o.count_moves,
        !.agent = [@ EXCEPT !.Q = g.Q,
                            !.rng = Drawn(@, IF g.explore THEN 2 ELSE 1)],
        !.train = [@ EXCEPT
           !.s = state_key(w.train.observation), !.a = g.action,
           !.obs_next = o.ret.obs, !.r = Float(o.ret.reward),
           !.info_next = o.ret.info, !.done = done, !.replied = FALSE,
           !.r_total = IF w.train.algo = "q_learning" /\ done
                       THEN Plus(Float(o.ret.reward), r_terminal) ELSE @,
           !.s_next = IF w.train.algo = "q_learning" /\ done
                      THEN state_key(o.ret.obs) ELSE @,
           !.pc = IF w.train.algo = "sarsa" THEN "sarsa_update"
                  ELSE IF done THEN "q_update" ELSE "q_reply"]]

\* the opponent replies to the move of the agent; r_after, r_total and
\* s_next of the off-policy trainer
QReplyStep(w, d) ==
  LET legal   == get_legal_actions(w.board)
      a_opp   == legal[PickIndex(legal, d.c)]
      o       == StepOutcome(w.board, w.turn, w.count_moves, a_opp)
      done    == o.ret.terminated \/ o.ret.truncated
      r_after == IF done
                 THEN IF is_winner(o.board, 2) THEN <<-1, 1>> ELSE <<1, 2>>
                 ELSE Zero
  IN  [w EXCEPT
        !.board = o.board, !.turn = o.turn, !.count_moves = o.count_moves,
        !.train = [@ EXCEPT
           !.np_random = Drawn(@, 1),
           !.obs_next = o.ret.obs, !.info_next = o.ret.info,
           !.done = done, !.replied = TRUE,
           !.r_total = Plus(w.train.r, r_after),
           !.s_next = state_key(o.ret.obs),
           !.pc = "q_update"]]

\* agent.update(s, a, r_total, s_next, info["legal columns"], done): the
\* subscript raises KeyError when the info record has no such key.
\* Then G += r_total, and observation = obs_after_o after a reply.
QUpdateStep(w) ==
  IF "legal columns" \notin DOMAIN w.train.info_next
  THEN [w EXCEPT !.train = [@ EXCEPT !.pc = "KeyError"]]
  ELSE [w EXCEPT
         !.agent = [@ EXCEPT !.Q =
            update(w.agent, w.train.s, w.train.a, w.train.r_total,
                   w.train.s_next, w.train.info_next["legal columns"],
                   w.train.done)],
         !.train = [@ EXCEPT
            !.observation = IF w.train.replied THEN w.train.obs_next ELSE @,
            !.G = Plus(@, w.train.r_total),
            !.pc = "while"]]

\* lines 43-57 of the on-policy trainer: s_next is the key of obs_next; if
\* not done, a_next = agent._get_action(env, obs_next);
\* Q[s][a] += alpha * (target - Q[s][a]); observation = obs_next; G += r
SarsaUpdateStep(w, d) ==
  LET s_next == state_key(w.train.obs_next)
      ag1    == [w.agent EXCEPT !.Q = ensure(@, s_next)]
      legal  == get_legal_actions(w.board)
      g      == get_action(ag1, w.board, w.train.obs_next, d.u,
                           PickIndex(legal, d.c))
      target == IF w.train.done THEN w.train.r
                ELSE Plus(w.train.r,
                          Times(w.train.gamma, g.Q[s_next][g.action]))
      Q1     == IF w.train.done THEN ag1.Q ELSE g.Q
      s      == w.train.s
      a      == w.train.a
  IN  [w EXCEPT
        !.agent = [@ EXCEPT
           !.Q = [Q1 EXCEPT ![s][a] =
                    Plus(@, Times(w.train.alpha, Minus(target, @)))],
           !.rng = IF w.train.done THEN @
                   ELSE Drawn(@, IF g.explore THEN 2 ELSE 1)],
        !.train = [@ EXCEPT
           !.s_next = s_next,
           !.a_next = IF w.train.done THEN @ ELSE g.action,
           !.observation = w.train.obs_next,
           !.G = Plus(@, w.train.r),
           !.pc = "while"]]

\* after the loop of an episode: eps = max(epsilon_end, eps * epsilon_decay);
\* agent.epsilon = eps; returns.append(G)
EndEpisodeStep(w) ==
  LET eps == decay_epsilon(w.train.eps, w.train.epsilon_end,
                           w.train.epsilon_decay)
  IN  [w EXCEPT
        !.agent = [@ EXCEPT !.epsilon = eps],
        !.train = [@ EXCEPT !.eps = eps,
                            !.returns = Append(@, w.train.G),
                            !.ep = @ + 1, !.pc = "for"]]

\* the step a run of a trainer takes next
StepKind(w) ==
  CASE w.train.pc = "for" ->
         IF w.train.ep < w.train.episodes THEN "begin" ELSE "return"
    [] w.train.pc = "while" ->
         IF w.train.done THEN "end"
         ELSE IF w.turn # 1 THEN "opponent" ELSE "agent"
    [] w.train.pc = "q_reply" -> "reply"
    [] w.train.pc = "q_update" -> "q_update"
    [] w.train.pc = "sarsa_update" -> "sarsa_update"
    [] OTHER -> "halt"

\* the run after its next step, which draws d
NextWorld(w, d) ==
  LET kind == StepKind(w)
  IN  CASE kind = "begin" -> BeginEpisodeStep(w)
        [] kind = "return" -> ReturnStep(w)
        [] kind = "end" -> EndEpisodeStep(w)
        [] kind = "opponent" -> OpponentTurnStep(w, d)
        [] kind = "agent" -> AgentMoveStep(w, d)
        [] kind = "reply" -> QReplyStep(w, d)
        [] kind = "q_update" -> QUpdateStep(w)
        [] kind = "sarsa_update" -> SarsaUpdateStep(w, d)
        [] OTHER -> w

\* the generator the next step draws from: the opponent draws from
\* env.np_random, the learning policy from its own rng
StepGenerator(w) ==
  IF StepKind(w) \in {"opponent", "reply"}
  THEN w.train.np_random
  ELSE w.agent.rng

\* Two generators built from the same seed give the same values at the
\* same position; otherwise their values are unrelated.
TwinDraws(w, tw, d) ==
  IF /\ StepKind(tw) = StepKind(w)
     /\ StepGenerator(tw) = StepGenerator(w)
     /\ StepGenerator(w).seeded
  THEN {d}
  ELSE Draws

\* the first run
World ==
  [board |-> board, turn |-> turn, count_moves |-> count_moves,
   agent |-> agent, train |-> train]

\* EnvConnect4(): no board yet, no generator built from a seed
FreshEngine ==
  [board |-> NoBoard, turn |-> NoTurn, count_moves |-> NoCount,
   np_random |-> SystemGenerator(0)]

\* an engine that has been played on
UsedEngine ==
  [board |-> BookBoard(NumCells - EndgamePlies),
   turn |-> BookTurn(NumCells - EndgamePlies),
   count_moves |-> NumCells - EndgamePlies,
   np_random |-> SystemGenerator(NumCells - EndgamePlies)]

\* the trainers; the arguments of a call
Trainers == {"q_learning", "sarsa"}
TrainSeeds == {7}
TrainAlphas == {<<1, 2>>}
TrainGammas == {<<1, 2>>}
\* (epsilon_start, epsilon_end, epsilon_decay)
TrainSchedules == {<< <<1, 1>>, <<0, 1>>, <<0, 1>> >>}

\* Two calls of the same trainer with the same arguments, the first on a
\* fresh engine, the second on a used one.
InitTrain ==
  /\ ret = [op |-> "none"]
  /\ \E algo \in Trainers, episodes \in 0..MaxEpisodes, al \in TrainAlphas,
        ga \in TrainGammas, sc \in TrainSchedules, seed \in TrainSeeds :
       LET p == [algo |-> algo, episodes |-> episodes, alpha |-> al,
                 gamma |-> ga, epsilon_start |-> sc[1],
                 epsilon_end |-> sc[2], epsilon_decay |-> sc[3],
                 seed |-> seed]
           w == StartTrain(p, FreshEngine)
       IN  /\ board = w.board
           /\ turn = w.turn
           /\ count_moves = w.count_moves
           /\ agent = w.agent
           /\ train = w.train
           /\ twin = StartTrain(p, UsedEngine)

\* both runs take their next step
Advance ==
  /\ \E d \in Draws :
       \E d2 \in TwinDraws(World, twin, d) :
         LET n == NextWorld(World, d)
         IN  /\ board' = n.board
             /\ turn' = n.turn
             /\ count_moves' = n.count_moves
             /\ agent' = n.agent
             /\ train' = n.train
             /\ twin' = NextWorld(twin, d2)
  /\ UNCHANGED ret

BeginEpisode ==
  /\ StepKind(World) = "begin"
  /\ Advance

Return ==
  /\ StepKind(World) = "return"
  /\ Advance

EndEpisode ==
  /\ StepKind(World) = "end"
  /\ Advance

OpponentTurn ==
  /\ StepKind(World) = "opponent"
  /\ count_moves < MaxPlies
  /\ Advance

AgentMove ==
  /\ StepKind(World) = "agent"
  /\ count_moves < MaxPlies
  /\ Advance

QReply ==
  /\ StepKind(World) = "reply"
  /\ count_moves < MaxPlies
  /\ Advance

QUpdate ==
  /\ StepKind(World) = "q_update"
  /\ Advance

SarsaUpdate ==
  /\ StepKind(World) = "sarsa_update"
  /\ Advance

NextTrain ==
  \/ BeginEpisode
  \/ Return
  \/ EndEpisode
  \/ OpponentTurn
  \/ AgentMove
  \/ QReply
  \/ QUpdate
  \/ SarsaUpdate

SpecTrain == InitTrain /\ [][NextTrain]_vars

\* ------------------------------------------------------ vocabulary of claims
Cells == 0..(NumCells - 1)
Rows == 0..(NumRows - 1)
Cols == 0..(NumCols - 1)

Started == board # NoBoard

\* the cell of (row, col), for coordinates inside the board only
InBoard(row, col) == row \in Rows /\ col \in Cols

\* four consecutive cells, all inside the board, along one of the four
\* directions (right, down, down-right, up-right), all equal to mark
FourInARow(b, mark) ==
  \E row \in Rows, col \in Cols :
    \E d \in {<<0, 1>>, <<1, 0>>, <<1, 1>>, <<-1, 1>>} :
      \A i \in 0..3 :
        /\ InBoard(row + i * d[1], col + i * d[2])
        /\ b[(row + i * d[1]) * NumCols + (col + i * d[2])] = mark

BoardFull(b) == \A c \in Cells : b[c] # 0

TopOccupied(b, col) == b[col] # 0

\* the columns whose top cell is empty
LegalSet(b) == {col \in Cols : ~TopOccupied(b, col)}

\* the transition is a call of step with argument a
StepCall(a) == Started /\ ret'.op = "step" /\ ret'.action = a /\ Step(a)

\* (C1) A step whose argument is not a legal column (outside 0..6, or a
\* column whose top cell is occupied) returns terminated = true,
\* truncated = false, reward = -1, is_draw = false and as winner the player
\* who is not to move.
C1_IllegalStepIsLoss ==
  [][\A a \in Actions :
       (StepCall(a) /\ a \notin LegalSet(board)) =>
          /\ ret'.terminated = TRUE
          /\ ret'.truncated = FALSE
          /\ ret'.reward = -1
          /\ ret'.info.is_draw = FALSE
          /\ ret'.info.winner \in {1, 2} \ {turn}]_vars

\* an illegal step into a full column of a board that still has room
C1_Witness ==
  /\ ret.op = "step"
  /\ ret.action \in Cols
  /\ TopOccupied(board, ret.action)
  /\ ~BoardFull(board)
  /\ ret.reward = -1
  /\ ret.info.winner = 3 - turn

\* (C2) Terminal outcomes are absorbing: a step that follows a step that
\* returned terminated = true (no reset in between) returns terminated =
\* true again and changes neither board, turn nor move count.
C2_TerminalAbsorbing ==
  [][(ret.op = "step" /\ ret.terminated /\ ret'.op = "step") =>
        /\ ret'.terminated
        /\ board' = board
        /\ turn' = turn
        /\ count_moves' = count_moves]_vars

\* (C3) On a full board with no four in a row for either mark the legal set
\* is empty and the next step, whatever its column, reports a draw:
\* is_draw = true and winner = 0.
C3_FullBoardStepIsDraw ==
  [][(Started /\ BoardFull(board)
        /\ ~FourInARow(board, 1) /\ ~FourInARow(board, 2)) =>
        /\ get_legal_actions(board) = << >>
        /\ (ret'.op = "step" =>
               ret'.info.is_draw = TRUE /\ ret'.info.winner = 0)]_vars

\* (C4) A legal step changes exactly one cell: the lowest empty cell of the
\* column it names receives the mark of the player to move; every other
\* cell keeps its value and the move count grows by one.
C4_LegalStepWritesOneCell ==
  [][\A a \in Actions :
       (StepCall(a) /\ a \in LegalSet(board)) =>
          \E row \in Rows :
            /\ board[row * NumCols + a] = 0
            /\ \A below \in (row + 1)..(NumRows - 1) :
                  board[below * NumCols + a] # 0
            /\ board'[row * NumCols + a] = turn
            /\ \A c \in Cells \ {row * NumCols + a} : board'[c] = board[c]
            /\ count_moves' = count_moves + 1]_vars

\* a legal step has landed on top of an earlier mark, below an empty cell
C4_Witness ==
  /\ ret.op = "step"
  /\ ret.reward >= 0
  /\ \E row \in 1..(NumRows - 2) :
       /\ board[(row - 1) * NumCols + ret.action] = 0
       /\ board[row * NumCols + ret.action] # 0
       /\ board[(row + 1) * NumCols + ret.action] # 0

\* (C5) A step that returns terminated = false hands the turn to the other
\* player; a step that returns terminated = true leaves the turn as it was.
C5_TurnFlipsOnlyWhenNotTerminal ==
  [][\A a \in Actions :
       StepCall(a) =>
          IF ret'.terminated
          THEN turn' = turn
          ELSE turn' \in {1, 2} \ {turn}]_vars

\* a winning step has been made and the winner is still the player to move
C5_Witness ==
  /\ ret.op = "step"
  /\ ret.terminated
  /\ ret.reward = 1
  /\ turn = ret.info.winner
  /\ FourInARow(board, turn)


MarkCount(b, mark) == Cardinality({c \in Cells : b[c] = mark})

C8_EmptyLegalOnlyOnDraw ==
  (Started /\ get_legal_actions(board) = << >>) =>
     /\ BoardFull(board)
     /\ ~FourInARow(board, 1)
     /\ ~FourInARow(board, 2)

\* (C8, amended) The legal set is empty only if the board is full; a full
\* board may hold a winning line.
C8_EmptyLegalOnlyOnFullBoard ==
  (Started /\ get_legal_actions(board) = << >>) => BoardFull(board)

\* the legal set is empty, the board is full and holds a winning line
C8_Witness ==
  /\ Started
  /\ get_legal_actions(board) = << >>
  /\ BoardFull(board)
  /\ FourInARow(board, 1) \/ FourInARow(board, 2)

ListSet(list) == {list[i] : i \in 1..Len(list)}

\* what the info of the last call says about the state after the call
InfoDescribesState(info, moveCount) ==
  /\ ListSet(info.legal_columns) = LegalSet(board)
  /\ Len(info.legal_columns) = Cardinality(LegalSet(board))
  /\ moveCount = count_moves
  /\ info.winner \in {0, 1, 2}
  /\ info.is_draw \in BOOLEAN
  /\ ret.op = "reset" =>
       /\ ListSet(info.legal_columns) = Cols
       /\ moveCount = 0
       /\ info.winner = 0
       /\ info.is_draw = FALSE

\* (C9, as stated) Every info returned by reset and step has the entries
\* legal_columns, move_count, winner and is_draw, which describe the state
\* after the call.
C9_InfoEntries ==
  ret.op \in {"reset", "step"} =>
     /\ {"legal_columns", "move_count", "winner", "is_draw"}
           \subseteq DOMAIN ret.info
     /\ InfoDescribesState(ret.info, ret.info.move_count)

\* (C9, amended) The entry for the move count is named count_moves.
C9_InfoEntriesCountMoves ==
  ret.op \in {"reset", "step"} =>
     /\ {"legal_columns", "count_moves", "winner", "is_draw"}
           \subseteq DOMAIN ret.info
     /\ "move_count" \notin DOMAIN ret.info
     /\ InfoDescribesState(ret.info, ret.info.count_moves)

\* a step has returned an info with a move count and a proper subset of
\* the columns
C9_Witness ==
  /\ ret.op = "step"
  /\ ret.info.count_moves > 0
  /\ ret.info.legal_columns # << >>
  /\ Len(ret.info.legal_columns) < NumCols


\* rows 2..5 of column 0 hold PLAYER_1; the same with row 5 given to PLAYER_2
ColumnOfOnes == RunBoard(2 * NumCols, NumCols, 4, 1, 0)
ColumnSpoiled == RunBoard(2 * NumCols, NumCols, 4, 1, 4)

\* (C6) is_winner(mark) is true exactly when four consecutive cells along a
\* row, a column, the down-right or the up-right diagonal all hold mark,
\* whatever the turn; PLAYER_1 in rows 2..5 of a column wins, and does not
\* once row 5 holds PLAYER_2.
C6_IsWinnerIffFourInARow ==
  ret.op = "is_winner" =>
     /\ ret.result = FourInARow(board, ret.mark)
     /\ (board = ColumnOfOnes /\ ret.mark = 1) => ret.result = TRUE
     /\ (board = ColumnSpoiled /\ ret.mark = 1) => ret.result = FALSE

\* is_winner(1) was asked on the column board, with player 2 to move
C6_Witness ==
  /\ ret.op = "is_winner"
  /\ ret.mark = 1
  /\ ret.result = TRUE
  /\ turn = 2
  /\ board = ColumnOfOnes


\* the row of a key, an all-zero row for a key that is not in the table
RowOf(table, s) == IF s \in DOMAIN table THEN table[s] ELSE ZeroRow

\* the largest stored value of the legal actions only
BestLegal(table, s_next, legal_next) ==
  LET values == {RowOf(table, s_next)[b] : b \in ListSet(legal_next)}
  IN  CHOOSE v \in values : \A w \in values : ~Less(v, w)

\* (C10) update(s, a, r, s_next, legal_next, done) sets Q[s][a] to
\* Q[s][a] + alpha * (r - Q[s][a]) when done, and to Q[s][a] + alpha *
\* (r + gamma * max{Q[s_next][b] : b in legal_next} - Q[s][a]) otherwise;
\* the maximum is over the legal actions only and a key that is not in the
\* table counts as an all-zero row.
C10_UpdateRule ==
  [][ret'.op = "update" =>
       LET c      == ret'
           old    == RowOf(agent.Q, c.s)[c.a]
           target == IF c.done
                     THEN c.r
                     ELSE Plus(c.r, Times(agent.gamma,
                            BestLegal(agent.Q, c.s_next, c.legal_next)))
       IN  agent'.Q[c.s][c.a] =
             Plus(old, Times(agent.alpha, Minus(target, old)))]_vars

\* an update with done = false has been made whose next row holds, for an
\* illegal action, a value above the values of all its legal actions
C10_Witness ==
  /\ ret.op = "update"
  /\ ret.done = FALSE
  /\ ret.s # ret.s_next
  /\ \E b \in 0..(n_actions - 1) :
       /\ ~InList(b, ret.legal_next)
       /\ \A l \in ListSet(ret.legal_next) :
            Less(agent.Q[ret.s_next][l], agent.Q[ret.s_next][b])

\* the legal columns whose stored value is the largest among the legal ones
BestLegalColumns(row, legal) ==
  {c \in legal : \A d \in legal : ~Less(row[c], row[d])}

\* (C11) For every table and every non-empty legal set the action of the
\* epsilon-greedy policy is a legal column; on the exploit branch it is the
\* smallest legal column whose value in the row of the current key is the
\* largest among the legal columns (an unseen key is a zero row), whatever
\* the values of the illegal columns.
C11_ActionIsLegalAndGreedy ==
  ret.op = "get_action" =>
     /\ ret.action \in LegalSet(board)
     /\ ~ret.explore =>
          \A c \in BestLegalColumns(
                     RowOf(agent.Q, state_key(get_obs(board, turn))),
                     LegalSet(board)) : ret.action <= c
     /\ ~ret.explore =>
          ret.action \in BestLegalColumns(
                     RowOf(agent.Q, state_key(get_obs(board, turn))),
                     LegalSet(board))

\* the exploit branch returned column 3 on a board where columns 2, 3, 4
\* are legal, 3 and 4 tie for the best legal value and the illegal column 0
\* holds a larger one
C11_Witness ==
  /\ ret.op = "get_action"
  /\ ~ret.explore
  /\ ret.action = 3
  /\ LegalSet(board) = {2, 3, 4}
  /\ LET row == agent.Q[state_key(get_obs(board, turn))]
     IN  /\ row[2] = <<-1, 1>>
         /\ row[3] = Zero
         /\ row[4] = Zero
         /\ row[0] = <<2, 1>>

\* the end of an episode
EpisodeEnds == train'.ep = train.ep + 1

\* (C12, as stated) The epsilon of the learning policy never grows from one
\* episode to the next and is not below epsilon_end after a decay, for
\* every choice of epsilon_start, epsilon_end and epsilon_decay.
C12_EpsilonNonIncreasing ==
  [][EpisodeEnds =>
       /\ ~Less(agent.epsilon, agent'.epsilon)
       /\ ~Less(agent'.epsilon, train.epsilon_end)]_vars

\* 0 <= epsilon_decay <= 1, epsilon_start >= 0, epsilon_end <= epsilon_start
SaneSchedule ==
  /\ ~Less(train.epsilon_decay, Zero)
  /\ ~Less(<<1, 1>>, train.epsilon_decay)
  /\ ~Less(train.epsilon_start, Zero)
  /\ ~Less(train.epsilon_start, train.epsilon_end)

\* (C12, amended) The same, for every choice with 0 <= epsilon_decay <= 1,
\* epsilon_start >= 0 and epsilon_end <= epsilon_start; a value after a
\* decay is not below epsilon_end for every choice.
C12_EpsilonNonIncreasingIfSane ==
  [][EpisodeEnds =>
       /\ SaneSchedule => ~Less(agent.epsilon, agent'.epsilon)
       /\ ~Less(agent'.epsilon, train.epsilon_end)]_vars

\* two decays of a sane schedule: 1, 1/2, 1/4 = epsilon_end
C12_Witness ==
  /\ train # NoTrain
  /\ "epsilon_decay" \in DOMAIN train
  /\ SaneSchedule
  /\ train.ep = 2
  /\ train.epsilon_start = <<1, 1>>
  /\ train.epsilon_decay = <<1, 2>>
  /\ agent.epsilon = <<1, 4>>
  /\ train.epsilon_end = <<1, 4>>

\* (C18) In every reachable state each column is a stack: its top cell is
\* EMPTY exactly when it has an EMPTY cell, and no EMPTY cell lies below an
\* occupied cell. So the drop-row search finds a row for every legal
\* column, and the branch of step for a drop row of -1 is not taken.
C18_ColumnsAreStacks ==
  Started =>
    \A col \in Cols :
      /\ ~TopOccupied(board, col) <=> (\E r \in Rows : board[idx(r, col)] = 0)
      /\ \A r \in 0..(NumRows - 2) :
           board[idx(r, col)] # 0 => board[idx(r + 1, col)] # 0
      /\ InList(col, get_legal_actions(board)) =>
           get_drop_row(board, col) \in Rows

\* a board with a full column and a column filled in part
C18_Witness ==
  /\ Started
  /\ \E col \in Cols : TopOccupied(board, col)
  /\ \E col \in Cols :
       /\ InList(col, get_legal_actions(board))
       /\ get_drop_row(board, col) \in 1..(NumRows - 2)

\* (C19) In every state reachable by reset and any sequence of step calls,
\* legal or illegal, before or after a terminal result, the move count is
\* the number of cells that are not EMPTY.
C19_CountIsOccupiedCells ==
  Started => count_moves = Cardinality({c \in Cells : board[c] # 0})

\* an illegal step that follows a winning step on a board with marks
C19_Witness ==
  /\ Started
  /\ ret.op = "step"
  /\ ~InList(ret.action, get_legal_actions(board))
  /\ FourInARow(board, turn)
  /\ count_moves >= 7

\* (C20) In every reachable state at most one of is_winner(1) and
\* is_winner(2) holds, and when is_winner(m) holds the turn is m.
C20_WinnerHoldsTheTurn ==
  Started =>
    /\ ~(is_winner(board, 1) /\ is_winner(board, 2))
    /\ \A m \in {1, 2} : is_winner(board, m) => turn = m

\* the winner has moved again after the winning step
C20_Witness ==
  /\ Started
  /\ ret.op = "step"
  /\ ret.reward = 1
  /\ is_winner(board, 2)
  /\ turn = 2
  /\ MarkCount(board, 2) > MarkCount(board, 1)

\* (C13) Two runs of the same trainer with the same seed, episode count and
\* hyperparameters hold the same Q-table and the same list of episode
\* returns after the same number of steps, and so at their end.
C13_RunsAgree ==
  twin # NoTwin =>
    /\ twin.agent.Q = agent.Q
    /\ twin.train.returns = train.returns
    /\ twin.train.pc = train.pc

\* two on-policy runs of two episodes have returned, with a learned value
\* in the table and a non-zero return
C13_Witness ==
  /\ twin # NoTwin
  /\ train.algo = "sarsa"
  /\ train.pc = "returned"
  /\ twin.train.pc = "returned"
  /\ Len(train.returns) = 2
  /\ train.returns[2] # Zero
  /\ \E s \in DOMAIN agent.Q : \E a \in 0..(n_actions - 1) : agent.Q[s][a] # Zero

\* a run of the off-policy trainer
OffPolicy == train # NoTrain /\ train.algo = "q_learning"

\* a run of the on-policy trainer
OnPolicy == train # NoTrain /\ train.algo = "sarsa"

\* (C14) A run of the off-policy trainer raises no fault, reads the legal
\* actions of s' from the info record of the engine, and returns a list
\* with one entry per episode.
C14_OffPolicyRunReturns ==
  OffPolicy =>
    /\ train.pc # "KeyError"
    /\ train.pc = "returned" => Len(train.returns) = train.episodes

\* the shaping term of the decision whose update is next
Shaping ==
  IF ~train.replied
  THEN IF FourInARow(board, 1) THEN <<1, 1>>
       ELSE IF FourInARow(board, 2) THEN <<-1, 1>>
       ELSE <<1, 2>>
  ELSE IF train.info_next.winner = 2 THEN <<-1, 1>>
       ELSE IF train.info_next.is_draw THEN <<1, 2>>
       ELSE Zero

\* the episode has ended with the last step of the engine
EpisodeEnded ==
  \/ train.info_next.winner # 0
  \/ train.info_next.is_draw

\* (C15) In the off-policy trainer the update of a decision receives the
\* step reward of the agent's move plus the shaping term, the legal actions
\* of s' and a terminal flag that tells whether the episode has ended, and
\* the return of the episode grows by that reward.
C15_ShapedRewardIsLearned ==
  [][(OffPolicy /\ train.pc = "q_update" /\ train'.pc # train.pc) =>
       /\ train.done = EpisodeEnded
       /\ agent'.Q = update(agent, train.s, train.a,
                            Plus(train.r, Shaping), train.s_next,
                            get_legal_actions(board), EpisodeEnded)
       /\ train'.G = Plus(train.G, Plus(train.r, Shaping))]_vars

\* the number of marks in the position of a key
KeyMarks(s) == Cardinality({i \in 1..NumCells : s[i] # 0})

\* (C16) In the on-policy trainer the update of a decision that does not end
\* the episode comes after one reply of the opponent: its s' is the
\* position after the reply, with the learning agent to move.
C16_OnPolicyUpdatesAfterReply ==
  [][(OnPolicy /\ train.pc = "sarsa_update" /\ ~train.done
        /\ train'.pc # train.pc) =>
       /\ train'.s_next[NumCells + 1] = 1
       /\ KeyMarks(train'.s_next) = KeyMarks(train.s) + 2]_vars

\* (C17) In the on-policy trainer the action a' of a non-terminal update is
\* the action of the next decision of the learning agent in the episode,
\* and that decision is taken in s'.
C17_NextActionIsPlayed ==
  [][(OnPolicy /\ StepKind(World) = "agent" /\ count_moves >= 2
        /\ train'.pc = "sarsa_update") =>
       /\ train'.a = train.a_next
       /\ train'.s = train.s_next]_vars

\* (C21) A step whose argument is not a legal column leaves the board, the
\* turn and the move count as they were, and the observation it returns
\* shows that board and that turn.
C21_IllegalStepChangesNothing ==
  [][\A a \in Actions :
       (StepCall(a) /\ a \notin LegalSet(board)) =>
          /\ board' = board
          /\ turn' = turn
          /\ count_moves' = count_moves
          /\ ret'.obs.board = board
          /\ ret'.obs.turn = turn]_vars

\* an illegal step with an argument that is no column, made by the second
\* player on a board with marks
C21_Witness ==
  /\ Started
  /\ ret.op = "step"
  /\ ret.action \notin Cols
  /\ ret.reward = -1
  /\ turn = 2
  /\ count_moves >= 3
  /\ ret.obs.board = board
  /\ MarkCount(board, 1) = MarkCount(board, 2) + 1

====
